---- MODULE Spec2Model ----
(***************************************************************************)
(* The static site build of src/src/index.ts: the posts directory is       *)
(* loaded (postsData), the templates, fonts and partials are set up, every *)
(* post page is written (genPosts) and then the index page (genIndex).     *)
(* Strings are sequences of one-character strings, so that path.join,      *)
(* path.parse, String.split, String.trim, String.indexOf and String.slice  *)
(* are computed the way Node computes them.                                *)
(***************************************************************************)
EXTENDS Integers, Sequences, FiniteSets, TLC

\* ------------------------------------------------------------------------
\* Bounds of the model
\* ------------------------------------------------------------------------
\* Largest number of entries fs.readdirSync(POSTS_DIR) returns.
MaxFiles == 2
\* Largest number of inline scripts html-minifier hands to minifyJS per page.
MaxScripts == 1
\* Largest number of directory components of a path given to formatFilename
\* in the specification of the Path Resolver alone (PathSpec).
MaxDepth == 1

\* ------------------------------------------------------------------------
\* String literals of the program
\* ------------------------------------------------------------------------
SLASH == "/"
DOT == "."
COLON == ":"
NL == "\n"
S_dot == <<".">>
S_dotdot == <<".", ".">>
S_build == <<"b","u","i","l","d">>
S_index_html == <<"i","n","d","e","x",".","h","t","m","l">>
S_dot_org == <<".","o","r","g">>
S_build_assets == <<"b","u","i","l","d","/","a","s","s","e","t","s">>
S_fonts_css == <<"b","u","i","l","d","/","a","s","s","e","t","s","/","f","o","n","t","s",".","c","s","s">>
POSTS_DIR == <<".","/","p","o","s","t","s">>
separator == <<"\n","-","-","-","\n">>

\* ------------------------------------------------------------------------
\* JavaScript string primitives
\* ------------------------------------------------------------------------
Max(a, b) == IF a >= b THEN a ELSE b
Min(a, b) == IF a <= b THEN a ELSE b
Range(s) == {s[k] : k \in DOMAIN s}

\* sub occurs in s at the 1-based position k
StartsAt(s, sub, k) ==
  /\ k + Len(sub) - 1 <= Len(s)
  /\ SubSeq(s, k, k + Len(sub) - 1) = sub

\* String.prototype.indexOf: the 0-based index of the first occurrence, or -1
IndexOf(s, sub) ==
  LET hits == {k \in 1..(Len(s) + 1) : StartsAt(s, sub, k)}
  IN  IF hits = {} THEN -1
      ELSE (CHOOSE k \in hits : \A m \in hits : k <= m) - 1

\* String.prototype.includes
Includes(s, sub) == IndexOf(s, sub) /= -1

\* String.prototype.slice(from, to): 0-based, negative indices count from the end
Slice(s, from, to) ==
  LET n == Len(s)
      f == IF from < 0 THEN Max(n + from, 0) ELSE Min(from, n)
      t == IF to < 0 THEN Max(n + to, 0) ELSE Min(to, n)
  IN  SubSeq(s, f + 1, t)

\* String.prototype.split(c) for a one-character separator: EVERY occurrence splits
RECURSIVE Split(_, _)
Split(s, c) ==
  IF \A k \in DOMAIN s : s[k] /= c THEN <<s>>
  ELSE LET k == CHOOSE x \in DOMAIN s : s[x] = c /\ \A y \in 1..(x - 1) : s[y] /= c
       IN  <<SubSeq(s, 1, k - 1)>> \o Split(SubSeq(s, k + 1, Len(s)), c)

WhiteSpace == {" ", "\n", "\t", "\r"}

\* String.prototype.trim: white space removed at both ends
Trim(s) ==
  LET ink == {k \in DOMAIN s : s[k] \notin WhiteSpace}
  IN  IF ink = {} THEN <<>>
      ELSE SubSeq(s, CHOOSE k \in ink : \A m \in ink : k <= m,
                     CHOOSE k \in ink : \A m \in ink : k >= m)

\* Array.prototype.join(c) of a list of strings
RECURSIVE JoinWith(_, _)
JoinWith(parts, c) ==
  IF parts = <<>> THEN <<>>
  ELSE IF Len(parts) = 1 THEN parts[1]
  ELSE parts[1] \o <<c>> \o JoinWith(Tail(parts), c)

\* ------------------------------------------------------------------------
\* Node's path module (POSIX)
\* ------------------------------------------------------------------------
\* normalizeString: "" and "." components dropped, ".." resolved
RECURSIVE NormSegs(_, _, _)
NormSegs(segs, acc, allowAboveRoot) ==
  IF segs = <<>> THEN acc
  ELSE LET seg == Head(segs)
           rest == Tail(segs)
       IN  IF seg = <<>> \/ seg = S_dot THEN NormSegs(rest, acc, allowAboveRoot)
           ELSE IF seg = S_dotdot
             THEN IF acc /= <<>> /\ acc[Len(acc)] /= S_dotdot
                    THEN NormSegs(rest, SubSeq(acc, 1, Len(acc) - 1), allowAboveRoot)
                  ELSE IF allowAboveRoot
                    THEN NormSegs(rest, Append(acc, seg), allowAboveRoot)
                  ELSE NormSegs(rest, acc, allowAboveRoot)
           ELSE NormSegs(rest, Append(acc, seg), allowAboveRoot)

\* path.normalize
PathNormalize(p) ==
  IF p = <<>> THEN S_dot
  ELSE LET isAbsolute == p[1] = SLASH
           trailing == p[Len(p)] = SLASH
           body == JoinWith(NormSegs(Split(p, SLASH), <<>>, ~isAbsolute), SLASH)
           tail == IF body = <<>>
                     THEN (IF isAbsolute THEN <<>>
                           ELSE IF trailing THEN <<".", "/">> ELSE S_dot)
                   ELSE IF trailing THEN body \o <<SLASH>> ELSE body
       IN  IF isAbsolute THEN <<SLASH>> \o tail ELSE tail

\* path.join(...parts): the non-empty parts joined by "/", then normalized
PathJoin(parts) ==
  LET joined == JoinWith(SelectSeq(parts, LAMBDA x : x /= <<>>), SLASH)
  IN  IF joined = <<>> THEN S_dot ELSE PathNormalize(joined)

\* path.parse: the dir, base, ext and name of a path
PathParse(p) ==
  LET solid == {k \in DOMAIN p : p[k] /= SLASH}
      end == IF solid = {} THEN 0 ELSE CHOOSE k \in solid : \A m \in solid : k >= m
      slashes == {k \in 1..end : p[k] = SLASH}
      lastSlash == IF slashes = {} THEN 0
                   ELSE CHOOSE k \in slashes : \A m \in slashes : k >= m
      base == SubSeq(p, lastSlash + 1, end)
      isAbsolute == p /= <<>> /\ p[1] = SLASH
      dir == IF lastSlash > 1 THEN SubSeq(p, 1, lastSlash - 1)
             ELSE IF isAbsolute THEN <<SLASH>> ELSE <<>>
      dots == {k \in DOMAIN base : base[k] = DOT}
      lastDot == IF dots = {} THEN 0 ELSE CHOOSE k \in dots : \A m \in dots : k >= m
      noExt == lastDot <= 1 \/ base = S_dotdot
  IN  [dir |-> dir,
       base |-> base,
       ext |-> IF noExt THEN <<>> ELSE SubSeq(base, lastDot, Len(base)),
       name |-> IF noExt THEN base ELSE SubSeq(base, 1, lastDot - 1)]

\* ------------------------------------------------------------------------
\* Pure functions of the program
\* ------------------------------------------------------------------------
\* formatFilename with the base name used where the name (extension removed) belongs
formatFilename_KeepsExt(filename) ==
  LET parsed == PathParse(filename)
  IN  IF parsed.base = S_index_html THEN filename
      ELSE PathJoin(<<parsed.dir, parsed.base, S_index_html>>)

\* formatFilename without the early return for a path that already names index.html
formatFilename_NoIndexCheck(filename) ==
  LET parsed == PathParse(filename)
  IN  PathJoin(<<parsed.dir, parsed.name, S_index_html>>)

formatFilename(filename) ==
  LET parsed == PathParse(filename)
  IN  IF parsed.base = S_index_html THEN filename
      ELSE PathJoin(<<parsed.dir, parsed.name, S_index_html>>)

\* the href of postsData with path.parse(...).dir left out
hrefOf_NoDir(fullpath) == formatFilename(fullpath)

\* postsData: let href = formatFilename(fullpath); href = path.parse(href).dir
hrefOf(fullpath) == PathParse(formatFilename(fullpath)).dir

\* write: the path the page is written to
writePath(filename) == formatFilename(PathJoin(<<S_build, filename>>))

\* A JavaScript object as a function from its keys; {...data, [key]: value}
NoMetadata == [k \in {} |-> <<>>]
Put(data, key, value) ==
  [k \in (DOMAIN data) \cup {key} |-> IF k = key THEN value ELSE data[k]]

\* parseMetadata: every line is split on ":" and destructured into [key, value];
\* value.trim() throws a TypeError when the line has no ":" (value is undefined)
RECURSIVE ReduceLines(_, _)
ReduceLines(lines, data) ==
  IF lines = <<>> THEN [threw |-> FALSE, data |-> data]
  ELSE LET parts == Split(Head(lines), COLON)
       IN  IF Len(parts) < 2 THEN [threw |-> TRUE, data |-> data]
           ELSE ReduceLines(Tail(lines), Put(data, parts[1], Trim(parts[2])))

parseMetadata(str) == ReduceLines(Split(str, NL), NoMetadata)

\* An optional value: null is None, a string s is Some(s)
None == <<>>
Some(s) == <<s>>

\* The converter: pandoc --from=org --to=html on a plain paragraph
Pandoc(content) == <<"<","p",">">> \o content \o <<"<","/","p",">">>

\* What spawnSync('pandoc', ...) can return: it never throws.  "ok": the process
\* ran and exited 0; "failed": it exited non-zero with nothing on stdout;
\* "enoent": it could not be spawned (no pandoc on the machine), and stdout is null.
SpawnOutcomes(installed) == IF installed THEN {"ok", "failed"} ELSE {"enoent"}
spawnSync(outcome, content) ==
  IF outcome = "ok" THEN Some(Pandoc(content))
  ELSE IF outcome = "failed" THEN Some(<<>>)
  ELSE None

\* compileOrgFile on the text read from the file
compileOrgFile(rawContent, outcome) ==
  LET idx == IndexOf(rawContent, separator)
      rawMetadata == Slice(rawContent, 0, idx)
      parsed == parseMetadata(rawMetadata)
      content == Slice(rawContent, idx + Len(separator), Len(rawContent))
  IN  [threw |-> parsed.threw,
       metadata |-> parsed.data,
       html |-> spawnSync(outcome, content)]

\* terser's minify(text, {warnings: true}) on the script texts of the model: a
\* text holding "w" draws a warning, a text holding "e" is a syntax error
JS_ok == <<"o">>
JS_warn == <<"w">>
JS_bad == <<"e">>
ScriptTexts == {JS_ok, JS_warn, JS_bad}
minifyJs(text) == [warnings |-> "w" \in Range(text), error |-> "e" \in Range(text)]

LogLine(kind, text) == [kind |-> kind, text |-> text]

\* the minifyJS callback with the throw left out
minifyJSCallback_NoThrow(text) ==
  LET res == minifyJs(text)
  IN  [threw |-> FALSE,
       console |-> (IF res.warnings THEN <<LogLine("warnings", text)>> ELSE <<>>)
                   \o (IF res.error THEN <<LogLine("script", text)>> ELSE <<>>)]

\* the minifyJS callback of optimizeHtml: warnings are logged; on an error the
\* script text is logged and the error thrown
minifyJSCallback(text) ==
  LET res == minifyJs(text)
  IN  [threw |-> res.error,
       console |-> (IF res.warnings THEN <<LogLine("warnings", text)>> ELSE <<>>)
                   \o (IF res.error THEN <<LogLine("script", text)>> ELSE <<>>)]

\* optimizeHtml: html-minifier calls the callback on the page's scripts in order;
\* the first throw ends the call
RECURSIVE MinifyScripts(_, _)
MinifyScripts(scripts, console) ==
  IF scripts = <<>> THEN [threw |-> FALSE, console |-> console]
  ELSE LET r == minifyJSCallback(Head(scripts))
       IN  IF r.threw THEN [threw |-> TRUE, console |-> console \o r.console]
           ELSE MinifyScripts(Tail(scripts), console \o r.console)

optimizeHtml(scripts) == MinifyScripts(scripts, <<>>)

\* the statements of the top level of the program, in their order
StageOrder_IndexFirst == <<"postsData", "setup", "genIndex", "genPosts", "done">>

StageOrder == <<"postsData", "setup", "genPosts", "genIndex", "done">>

NextStage(stage) ==
  StageOrder[(CHOOSE k \in DOMAIN StageOrder : StageOrder[k] = stage) + 1]

\* ------------------------------------------------------------------------
\* Inputs: the posts directory, the files' text, the scripts of a rendered page
\* ------------------------------------------------------------------------
F_a_org == <<"a",".","o","r","g">>
F_a_orgx == <<"a",".","o","r","g","x">>
F_notes_org_bak == <<"n","o","t","e","s",".","o","r","g",".","b","a","k">>
F_index_org == <<"i","n","d","e","x",".","o","r","g">>
F_readme_md == <<"r","e","a","d","m","e",".","m","d">>
FileNames == {F_a_org, F_a_orgx, F_notes_org_bak, F_index_org, F_readme_md}

\* "title:Test\n---\nHello"
R_test == <<"t","i","t","l","e",":","T","e","s","t">> \o separator \o <<"H","e","l","l","o">>
\* "link: http://x\n---\nB"
R_link == <<"l","i","n","k",":"," ","h","t","t","p",":","/","/","x">> \o separator \o <<"B">>
\* "title:T\ndraft\n---\nB": the second header line has no colon
R_draft == <<"t","i","t","l","e",":","T","\n","d","r","a","f","t">> \o separator \o <<"B">>
\* "\n---\nB": the header block is empty
R_empty == separator \o <<"B">>
RawContents == {R_test, R_link, R_draft, R_empty}

\* the listings readdirSync can return: distinct names, in any order
RECURSIVE Listings(_)
Listings(n) ==
  IF n = 0 THEN {<<>>}
  ELSE LET shorter == Listings(n - 1)
       IN  shorter \cup {Append(l, f) : l \in shorter, f \in FileNames}

DirListings ==
  {l \in Listings(MaxFiles) : \A a, b \in DOMAIN l : a /= b => l[a] /= l[b]}

RECURSIVE ScriptLists(_)
ScriptLists(n) ==
  IF n = 0 THEN {<<>>}
  ELSE LET shorter == ScriptLists(n - 1)
       IN  shorter \cup {Append(l, t) : l \in shorter, t \in ScriptTexts}

PageScripts == ScriptLists(MaxScripts)

\* ------------------------------------------------------------------------
\* State
\* ------------------------------------------------------------------------
VARIABLES
  pandoc,    \* whether a pandoc executable is on the machine
  pc,        \* the statement of the top level being run, "done" or "aborted"
  error,     \* the uncaught exception that ended the process, or "none"
  dirList,   \* fs.readdirSync(POSTS_DIR)
  i,         \* postsData: the entry of dirList the loop is at
  DATA,      \* the PostData list
  sources,   \* for each PostData: the text read and what spawnSync met
  j,         \* genPosts: the post the loop is at
  dirs,      \* directories created under build
  written,   \* the fs.writeFileSync calls made, in order
  console,   \* what the last step logged
  rendered,  \* the inline scripts of the page the last step rendered
  pathPc, pathIn, pathOut, pathAgain, pathHref   \* the Path Resolver alone

buildVars == <<pandoc, pc, error, dirList, i, DATA, sources, j, dirs, written, console, rendered>>
pathVars == <<pathPc, pathIn, pathOut, pathAgain, pathHref>>
vars == <<pandoc, pc, error, dirList, i, DATA, sources, j, dirs, written, console, rendered,
          pathPc, pathIn, pathOut, pathAgain, pathHref>>

PathIdle ==
  /\ pathPc = "idle"
  /\ pathIn = <<>>
  /\ pathOut = <<>>
  /\ pathAgain = <<>>
  /\ pathHref = <<>>

Init ==
  /\ pandoc \in BOOLEAN
  /\ pc = "postsData"
  /\ error = "none"
  /\ dirList \in DirListings
  /\ i = 1
  /\ DATA = <<>>
  /\ sources = <<>>
  /\ j = 1
  /\ dirs = {}
  /\ written = <<>>
  /\ console = <<>>
  /\ rendered = <<>>
  /\ PathIdle

\* ------------------------------------------------------------------------
\* postsData
\* ------------------------------------------------------------------------
\* an entry whose name does not include ".org" is logged and skipped
PostsDataSkip ==
  /\ pc = "postsData"
  /\ i <= Len(dirList)
  /\ ~Includes(dirList[i], S_dot_org)
  /\ console' = <<LogLine("Skipping", dirList[i])>>
  /\ rendered' = <<>>
  /\ i' = i + 1
  /\ UNCHANGED <<pandoc, pc, error, dirList, DATA, sources, j, dirs, written>>
  /\ UNCHANGED pathVars

\* any other entry is compiled and pushed; a throw of parseMetadata is uncaught
PostsDataCompile ==
  /\ pc = "postsData"
  /\ i <= Len(dirList)
  /\ Includes(dirList[i], S_dot_org)
  /\ \E rawContent \in RawContents, outcome \in SpawnOutcomes(pandoc) :
       LET filename == dirList[i]
           fullpath == PathJoin(<<POSTS_DIR, filename>>)
           r == compileOrgFile(rawContent, outcome)
       IN  IF r.threw
             THEN /\ pc' = "aborted"
                  /\ error' = "TypeError"
                  /\ UNCHANGED <<i, DATA, sources>>
             ELSE /\ DATA' = Append(DATA, [html |-> r.html,
                                            filename |-> filename,
                                            fullpath |-> fullpath,
                                            metadata |-> r.metadata,
                                            href |-> hrefOf(fullpath)])
                  /\ sources' = Append(sources, [raw |-> rawContent, spawn |-> outcome])
                  /\ i' = i + 1
                  /\ UNCHANGED <<pc, error>>
  /\ console' = <<>>
  /\ rendered' = <<>>
  /\ UNCHANGED <<pandoc, dirList, j, dirs, written>>
  /\ UNCHANGED pathVars

PostsDataReturn ==
  /\ pc = "postsData"
  /\ i > Len(dirList)
  /\ pc' = NextStage("postsData")
  /\ console' = <<>>
  /\ rendered' = <<>>
  /\ UNCHANGED <<pandoc, error, dirList, i, DATA, sources, j, dirs, written>>
  /\ UNCHANGED pathVars

\* ------------------------------------------------------------------------
\* templates, fs.mkdirSync('build/assets'), compileFontCss, registerPartials
\* ------------------------------------------------------------------------
Setup ==
  /\ pc = "setup"
  /\ dirs' = dirs \cup {S_build, S_build_assets}
  /\ written' = Append(written, [path |-> S_fonts_css, page |-> "fonts", post |-> 0])
  /\ pc' = NextStage("setup")
  /\ console' = <<>>
  /\ rendered' = <<>>
  /\ UNCHANGED <<pandoc, error, dirList, i, DATA, sources, j>>
  /\ UNCHANGED pathVars

\* ------------------------------------------------------------------------
\* write, genPosts, genIndex
\* ------------------------------------------------------------------------
\* fs.mkdirSync(dir, {recursive: true}): dir and the directories above it
Ancestors(dir) ==
  {SubSeq(dir, 1, k) : k \in {m \in DOMAIN dir : m = Len(dir) \/ dir[m + 1] = SLASH}}

\* write(filename, content): the directory is made and the path logged before
\* optimizeHtml runs; the file is written only if optimizeHtml returns
write(filename, page, post, scripts, next) ==
  LET fullpath == writePath(filename)
      dir == PathParse(fullpath).dir
      optimized == optimizeHtml(scripts)
  IN  /\ dirs' = dirs \cup Ancestors(dir)
      /\ console' = <<LogLine("Writing to", fullpath)>> \o optimized.console
      /\ rendered' = scripts
      /\ IF optimized.threw
           THEN /\ pc' = "aborted"
                /\ error' = "MinifyError"
                /\ written' = written
           ELSE /\ pc' = next
                /\ error' = error
                /\ written' = Append(written, [path |-> fullpath, page |-> page,
                                               post |-> post])

GenPostsStep ==
  /\ pc = "genPosts"
  /\ j <= Len(DATA)
  /\ \E scripts \in PageScripts :
       /\ write(DATA[j].fullpath, "post", j, scripts, "genPosts")
       /\ j' = IF optimizeHtml(scripts).threw THEN j ELSE j + 1
  /\ UNCHANGED <<pandoc, dirList, i, DATA, sources>>
  /\ UNCHANGED pathVars

GenPostsReturn ==
  /\ pc = "genPosts"
  /\ j > Len(DATA)
  /\ pc' = NextStage("genPosts")
  /\ console' = <<>>
  /\ rendered' = <<>>
  /\ UNCHANGED <<pandoc, error, dirList, i, DATA, sources, j, dirs, written>>
  /\ UNCHANGED pathVars

GenIndex ==
  /\ pc = "genIndex"
  /\ \E scripts \in PageScripts :
       write(S_index_html, "index", 0, scripts, NextStage("genIndex"))
  /\ UNCHANGED <<pandoc, dirList, i, DATA, sources, j>>
  /\ UNCHANGED pathVars

Next ==
  \/ PostsDataSkip
  \/ PostsDataCompile
  \/ PostsDataReturn
  \/ Setup
  \/ GenPostsStep
  \/ GenPostsReturn
  \/ GenIndex

Spec == Init /\ [][Next]_vars

\* ------------------------------------------------------------------------
\* The Path Resolver alone: formatFilename and the href on bounded paths
\* ------------------------------------------------------------------------
DirNames == {S_build, <<"p","o","s","t","s">>, <<"a">>}

RECURSIVE DirSeqs(_)
DirSeqs(n) ==
  IF n = 0 THEN {<<>>}
  ELSE LET shorter == DirSeqs(n - 1)
       IN  shorter \cup {Append(l, d) : l \in shorter, d \in DirNames}

BaseNames ==
  {S_index_html, <<"t","e","s","t",".","o","r","g">>, F_index_org, F_notes_org_bak, S_dot_org,
   <<"R","E","A","D","M","E">>, <<"i","n","d","e","x",".","h","t","m">>,
   <<"i","n","d","e","x",".","h","t","m","l",".","o","r","g">>, <<"a",".">>}

\* relative paths as path.join returns them: components joined by "/"
PathInputs == {JoinWith(Append(d, b), SLASH) : d \in DirSeqs(MaxDepth), b \in BaseNames}

PathInit ==
  /\ pathPc = "input"
  /\ pathIn \in PathInputs
  /\ pathOut = <<>>
  /\ pathAgain = <<>>
  /\ pathHref = <<>>
  /\ pandoc = TRUE
  /\ pc = "idle"
  /\ error = "none"
  /\ dirList = <<>>
  /\ i = 1
  /\ DATA = <<>>
  /\ sources = <<>>
  /\ j = 1
  /\ dirs = {}
  /\ written = <<>>
  /\ console = <<>>
  /\ rendered = <<>>

PathFormat ==
  /\ pathPc = "input"
  /\ pathOut' = formatFilename(pathIn)
  /\ pathPc' = "formatted"
  /\ UNCHANGED <<pathIn, pathAgain, pathHref>>
  /\ UNCHANGED buildVars

PathFormatAgain ==
  /\ pathPc = "formatted"
  /\ pathAgain' = formatFilename(pathOut)
  /\ pathPc' = "again"
  /\ UNCHANGED <<pathIn, pathOut, pathHref>>
  /\ UNCHANGED buildVars

PathHref ==
  /\ pathPc = "formatted"
  /\ pathHref' = hrefOf(pathIn)
  /\ pathPc' = "href"
  /\ UNCHANGED <<pathIn, pathOut, pathAgain>>
  /\ UNCHANGED buildVars

PathNext ==
  \/ PathFormat
  \/ PathFormatAgain
  \/ PathHref

PathSpec == PathInit /\ [][PathNext]_vars

\* ------------------------------------------------------------------------
\* Vocabulary of the claims: a path's parts read off the text directly
\* ------------------------------------------------------------------------
S_posts == <<"p","o","s","t","s">>
S_index == <<"i","n","d","e","x">>
LastOf(seq) == seq[Len(seq)]
Components(p) == Split(p, SLASH)
\* the base name: the text after the last "/"
BaseOf(p) == LastOf(Components(p))
\* the directory: the text before the last "/" ("" when there is none)
DirOf(p) == JoinWith(SubSeq(Components(p), 1, Len(Components(p)) - 1), SLASH)
\* a base name without its last extension (a leading dot starts no extension)
NameOf(base) ==
  LET dots == {k \in DOMAIN base : k > 1 /\ base[k] = DOT}
  IN  IF dots = {} THEN base
      ELSE SubSeq(base, 1, (CHOOSE k \in dots : \A m \in dots : k >= m) - 1)
\* the parts, left to right, with "/" between the non-empty ones
Glue(parts) == JoinWith(SelectSeq(parts, LAMBDA x : x /= <<>>), SLASH)
\* the writes of post number k's page
WritesOf(k) == {m \in DOMAIN written : written[m].page = "post" /\ written[m].post = k}
IndexWrites == {m \in DOMAIN written : written[m].page = "index"}
\* the header block of a file: the text before the separator
HeaderLines(raw) == Split(SubSeq(raw, 1, IndexOf(raw, separator)), NL)

\* ------------------------------------------------------------------------
\* C1
\* ------------------------------------------------------------------------
\* C1 as the spec states it: in a completed build the page of every loaded
\* document <name>.<ext>, name other than "index", is written to
\* build/<name>/index.html.
C1_BuildName ==
  pc = "done" =>
    \A k \in DOMAIN DATA :
      NameOf(DATA[k].filename) /= S_index =>
        /\ WritesOf(k) /= {}
        /\ \A m \in WritesOf(k) :
             written[m].path = Glue(<<S_build, NameOf(DATA[k].filename), S_index_html>>)

\* C1, amended: in a completed build the page of every loaded document
\* <name>.<ext> is written exactly once, to build/posts/<name>/index.html:
\* the posts directory is part of the output path.
C1_BuildPostsName ==
  pc = "done" =>
    \A k \in DOMAIN DATA :
      /\ Cardinality(WritesOf(k)) = 1
      /\ \A m \in WritesOf(k) :
           written[m].path =
             Glue(<<S_build, S_posts, NameOf(DATA[k].filename), S_index_html>>)

C1_Witness ==
  /\ pc = "done"
  /\ \E k \in DOMAIN DATA : DATA[k].filename = F_a_org /\ WritesOf(k) /= {}

\* ------------------------------------------------------------------------
\* C2
\* ------------------------------------------------------------------------
\* C2: formatFilename(P) is P when the base name of P is index.html, and
\* otherwise <dir(P)>/<name(P)>/index.html; applying it to its own result
\* changes nothing.
C2_FormatFilename ==
  /\ pathPc \in {"formatted", "again", "href"} =>
       pathOut = IF BaseOf(pathIn) = S_index_html THEN pathIn
                 ELSE Glue(<<DirOf(pathIn), NameOf(BaseOf(pathIn)), S_index_html>>)
  /\ pathPc = "again" => pathAgain = pathOut

C2_Witness ==
  /\ pathPc = "again"
  /\ BaseOf(pathIn) /= S_index_html
  /\ DirOf(pathIn) /= <<>>
  /\ pathOut /= pathIn
  /\ pathAgain = pathOut

\* ------------------------------------------------------------------------
\* C3
\* ------------------------------------------------------------------------
\* C3 as the spec states it: the href of every loaded document ends with a
\* "/": it is <dir(P)>/<name(P)>/, or <dir(P)>/ when the base name is
\* index.html.
C3_HrefTrailingSlash ==
  \A k \in DOMAIN DATA :
    LET P == DATA[k].fullpath
    IN  DATA[k].href =
          (IF BaseOf(P) = S_index_html THEN DirOf(P)
           ELSE Glue(<<DirOf(P), NameOf(BaseOf(P))>>)) \o <<SLASH>>

\* C3, amended: the href of every loaded document is the computed output path
\* with the trailing "/index.html" stripped, separator included, so it does
\* not end with a "/": it is <dir(P)>/<name(P)>, or <dir(P)> when the base
\* name is index.html.
C3_HrefNoTrailingSlash ==
  \A k \in DOMAIN DATA :
    LET P == DATA[k].fullpath
        href == DATA[k].href
    IN  /\ P = Glue(<<S_posts, DATA[k].filename>>)
        /\ href = IF BaseOf(P) = S_index_html THEN DirOf(P)
                  ELSE Glue(<<DirOf(P), NameOf(BaseOf(P))>>)
        /\ href /= <<>>
        /\ LastOf(href) /= SLASH
        /\ href \o <<SLASH>> \o S_index_html = formatFilename(P)

C3_Witness ==
  \E k \in DOMAIN DATA :
    /\ DATA[k].filename = F_a_org
    /\ DATA[k].href = <<"p","o","s","t","s","/","a">>

\* ------------------------------------------------------------------------
\* C4
\* ------------------------------------------------------------------------
\* C4: every header line key ':' rest maps key to the whole of rest, trimmed,
\* however many colons rest holds (the last line of a key decides).
C4_SplitsOnFirstColon ==
  \A k \in DOMAIN DATA :
    LET lines == HeaderLines(sources[k].raw)
    IN  \A n \in DOMAIN lines :
          LET line == lines[n]
              at == IndexOf(line, <<COLON>>)
              key == SubSeq(line, 1, at)
              rest == SubSeq(line, at + 2, Len(line))
          IN  (/\ at /= -1
               /\ \A later \in (n + 1)..Len(lines) :
                    SubSeq(lines[later], 1, Len(key) + 1) /= key \o <<COLON>>)
              => /\ key \in DOMAIN DATA[k].metadata
                 /\ DATA[k].metadata[key] = Trim(rest)

\* ------------------------------------------------------------------------
\* C5
\* ------------------------------------------------------------------------
\* C5: a header line without a colon is never fatal: parseMetadata raises no
\* error and the build goes on.
C5_MalformedLineNotFatal == ~(pc = "aborted" /\ error = "TypeError")

\* ------------------------------------------------------------------------
\* C6
\* ------------------------------------------------------------------------
\* C6: a failure of the converter aborts the build: no Document whose
\* converter failed, or whose converter output is missing or empty, is ever
\* in the Document list, and no file is written after such a failure.
C6_ConverterFailureFatal ==
  \A k \in DOMAIN DATA :
    /\ sources[k].spawn = "ok"
    /\ DATA[k].html /= None
    /\ DATA[k].html /= Some(<<>>)

\* ------------------------------------------------------------------------
\* C7
\* ------------------------------------------------------------------------
\* the last step was a call of write
Wrote == console /= <<>> /\ console[1].kind = "Writing to"
ErrorScripts == {n \in DOMAIN rendered : minifyJs(rendered[n]).error}
WarnScripts == {n \in DOMAIN rendered : minifyJs(rendered[n]).warnings}

\* C7: when the minifier reports an error for a script of a page, the script
\* text is logged and the build aborts: that page is not written, and no page
\* after it; when it reports no error, the warnings are logged and the page
\* is written.
C7_MinifyErrorFatal ==
  Wrote =>
    IF ErrorScripts /= {}
      THEN LET first == CHOOSE n \in ErrorScripts : \A m \in ErrorScripts : n <= m
           IN  /\ pc = "aborted"
               /\ error = "MinifyError"
               /\ LastOf(console) = LogLine("script", rendered[first])
               /\ IndexWrites = {}
               /\ \A k \in DOMAIN DATA : WritesOf(k) /= {} <=> k < j
      ELSE /\ pc /= "aborted"
           /\ written /= <<>>
           /\ LastOf(written).path = console[1].text
           /\ \A n \in WarnScripts : LogLine("warnings", rendered[n]) \in Range(console)

C7_Witness ==
  /\ Wrote
  /\ ErrorScripts /= {}
  /\ pc = "aborted"
  /\ j = 2
  /\ WritesOf(1) /= {}

\* ------------------------------------------------------------------------
\* C8
\* ------------------------------------------------------------------------
\* C8: a directory entry is in the Document list if and only if its filename
\* has the extension ".org".
C8_FilterByExtension ==
  \A k \in 1..(i - 1) :
    (\E d \in DOMAIN DATA : DATA[d].filename = dirList[k])
      <=> PathParse(dirList[k]).ext = S_dot_org

\* ------------------------------------------------------------------------
\* C9
\* ------------------------------------------------------------------------
\* C9 as the spec states it: the index page is written before any document
\* page.
C9_IndexBeforePosts ==
  \A m \in DOMAIN written :
    written[m].page = "post" => \E n \in 1..(m - 1) : written[n].page = "index"

\* C9, amended: all documents are loaded before anything is written; then the
\* document pages are written, in the order of the Document list; only after
\* the last of them is the index page written.
C9_PostsBeforeIndex ==
  /\ written /= <<>> => i > Len(dirList)
  /\ \A m, n \in DOMAIN written :
       (written[m].page = "post" /\ written[n].page = "post" /\ m < n)
         => written[m].post < written[n].post
  /\ \A n \in IndexWrites :
       /\ n = Len(written)
       /\ \A k \in DOMAIN DATA : \E m \in WritesOf(k) : m < n

C9_Witness ==
  /\ pc = "done"
  /\ Len(DATA) = MaxFiles
  /\ IndexWrites /= {}

\* ------------------------------------------------------------------------
\* C10
\* ------------------------------------------------------------------------
\* C10: two entries of the Document list never share an output path, none is
\* written to build/index.html, and a completed build has written as many
\* distinct pages as there are documents, plus one.
C10_NoCollision ==
  /\ \A a, b \in DOMAIN DATA :
       a /= b => writePath(DATA[a].fullpath) /= writePath(DATA[b].fullpath)
  /\ \A a \in DOMAIN DATA :
       writePath(DATA[a].fullpath) /= Glue(<<S_build, S_index_html>>)
  /\ pc = "done" =>
       Cardinality({written[m].path :
                      m \in {n \in DOMAIN written : written[n].page \in {"post", "index"}}})
         = Len(DATA) + 1

====
